---- MODULE Spec2Model ----
(***************************************************************************)
(* Model of the web crawler of scripts/create_knowledge_base.py and of its *)
(* second caller in scripts/create_core_knowledge_base.py.                 *)
(*                                                                         *)
(* A URL (and an href) is a string, modelled as a sequence of tokens: the  *)
(* scheme with its colon ("https:"), the "//" that opens the authority, a  *)
(* host ("a.com"), the delimiters "/", "?" and "#", and words ("docs").    *)
(* `pattern in url`, urlparse(url).netloc and urljoin(base, href) are      *)
(* computed on these token strings the way Python computes them on         *)
(* characters.  Hrefs of the model hold no "." or ".." segment, no ";"     *)
(* parameter and no scheme outside http/https.                             *)
(***************************************************************************)
EXTENDS Integers, Sequences, FiniteSets, TLC

VARIABLES
    entry,             \* the entry point that runs
    args,              \* its request: urls, recursive, translate_to
    pc,                \* where the run stands
    sitemap_response,  \* fetch_sitemap_urls: what requests.get met
    sitemap_urls,      \* the list fetch_sitemap_urls returned (line 178)
    scrape_urls,       \* the urls crawl_and_scrape was called with (line 179)
    recursive,         \* crawl_and_scrape's parameters
    translate_to,
    base_domain,       \* crawl_and_scrape's locals (lines 135-142)
    visited,
    documents,
    queue,
    current_url,
    translate_client,  \* the module-level client (line 21)
    returned,          \* what the crawl gave its caller
    site,              \* page URL -> the hrefs of its anchors, once served
    fetches,           \* the requests.get calls of the crawl, in order
    dequeued,          \* the URLs queue.pop(0) gave, in order
    enqueued           \* the URLs put on the queue (lines 137, 163), in order

vars == <<entry, args, pc, sitemap_urls, scrape_urls, recursive, translate_to,
          base_domain, visited, documents, queue, current_url,
          translate_client, returned, site, fetches, sitemap_response,
          dequeued, enqueued>>

(* ----------------------------- bounds ---------------------------------- *)
MaxLinks == 2      \* most anchors on one page

(* --------------------------- strings ----------------------------------- *)
Range(s) == {s[i] : i \in 1..Len(s)}

\* `p in s` of Python for two strings: p occurs in s as a contiguous run.
Contains(s, p) ==
    \E i \in 1..(Len(s) - Len(p) + 1) : \A j \in 1..Len(p) : s[i + j - 1] = p[j]

\* s.find of the first token of D, as a 1-based index; Len(s)+1 when absent.
FirstOf(s, D) ==
    IF \E i \in 1..Len(s) : s[i] \in D
    THEN CHOOSE i \in 1..Len(s) : s[i] \in D /\ \A j \in 1..(i - 1) : s[j] \notin D
    ELSE Len(s) + 1

\* s.rfind of token d, as a 1-based index; 0 when absent.
LastOf(s, d) ==
    IF \E i \in 1..Len(s) : s[i] = d
    THEN CHOOSE i \in 1..Len(s) : s[i] = d /\ \A j \in (i + 1)..Len(s) : s[j] # d
    ELSE 0

SeqsUpTo(S, n) == UNION {[1..k -> S] : k \in 0..n}

(* ------------------------ configuration -------------------------------- *)
IGNORE_PATTERNS ==
    << <<"/", "login">>, <<"/", "signup">>, <<"/", "edit">>, <<"cdn-cgi">>,
       <<"?">>, <<"#">>, <<".pdf">>, <<".zip">>, <<".jpg">>, <<".png">> >>

\* any(pattern in current_url for pattern in IGNORE_PATTERNS)
Ignored(url) == \E k \in 1..Len(IGNORE_PATTERNS) : Contains(url, IGNORE_PATTERNS[k])

(* --------------------------- urllib.parse ------------------------------ *)
Schemes == {"https:", "http:"}

\* urlsplit: scheme, then the netloc up to the first of "/", "?", "#", then
\* the fragment after the first "#", then the query after the first "?".
\* invalid: the netloc opens a bracket it does not close (ValueError).
urlsplit(url) ==
    LET hasScheme == Len(url) > 0 /\ url[1] \in Schemes
        r1 == IF hasScheme THEN Tail(url) ELSE url
        hasNet == Len(r1) > 0 /\ r1[1] = "//"
        r2 == IF hasNet THEN Tail(r1) ELSE r1
        n == IF hasNet THEN FirstOf(r2, {"/", "?", "#"}) - 1 ELSE 0
        r3 == SubSeq(r2, n + 1, Len(r2))
        f == FirstOf(r3, {"#"})
        r4 == SubSeq(r3, 1, f - 1)
        q == FirstOf(r4, {"?"})
    IN  [scheme   |-> IF hasScheme THEN <<url[1]>> ELSE <<>>,
         netloc   |-> SubSeq(r2, 1, n),
         path     |-> SubSeq(r4, 1, q - 1),
         query    |-> SubSeq(r4, q + 1, Len(r4)),
         fragment |-> SubSeq(r3, f + 1, Len(r3)),
         invalid  |-> LET nl == SubSeq(r2, 1, n)
                      IN  ("[" \in Range(nl)) /\ ("]" \notin Range(nl))]

\* urlparse(url).netloc
netloc(url) == urlsplit(url).netloc

\* urlparse(url) raises ValueError
ParseRaises(url) == urlsplit(url).invalid

urlunsplit(scheme, nl, path, query, fragment) ==
    LET p == IF (nl # <<>> \/ scheme # <<>>)
             THEN <<"//">> \o nl
                  \o (IF path # <<>> /\ path[1] # "/" THEN <<"/">> ELSE <<>>) \o path
             ELSE path
    IN  scheme \o p
        \o (IF query # <<>> THEN <<"?">> \o query ELSE <<>>)
        \o (IF fragment # <<>> THEN <<"#">> \o fragment ELSE <<>>)

\* The directory of the base path a relative reference is resolved in:
\* the base path without its last segment ("/" for an empty base path).
BaseDir(bpath) == IF bpath = <<>> THEN <<"/">> ELSE SubSeq(bpath, 1, LastOf(bpath, "/"))

urljoin(base, url) ==
    IF base = <<>> THEN url
    ELSE IF url = <<>> THEN base
    ELSE LET b == urlsplit(base)
             u == urlsplit(url)
             scheme == IF u.scheme = <<>> THEN b.scheme ELSE u.scheme
         IN  IF scheme # b.scheme THEN url
             ELSE IF u.netloc # <<>>
                  THEN urlunsplit(scheme, u.netloc, u.path, u.query, u.fragment)
             ELSE IF u.path = <<>>
                  THEN urlunsplit(scheme, b.netloc, b.path,
                                  IF u.query = <<>> THEN b.query ELSE u.query,
                                  u.fragment)
             ELSE IF u.path[1] = "/"
                  THEN urlunsplit(scheme, b.netloc, u.path, u.query, u.fragment)
             ELSE urlunsplit(scheme, b.netloc, BaseDir(b.path) \o u.path,
                             u.query, u.fragment)

\* urljoin(base, url) raises ValueError: one of the two does not parse.
JoinRaises(base, url) ==
    base # <<>> /\ url # <<>> /\ (ParseRaises(base) \/ ParseRaises(url))

(* ------------------------- the modelled web ---------------------------- *)
A_DOCS  == <<"https:", "//", "a.com", "/", "docs">>
A_A     == <<"https:", "//", "a.com", "/", "a">>
A_LOGIN == <<"https:", "//", "a.com", "/", "login">>
A_B     == <<"https:", "//", "a.com", "/", "b">>
B_DOCS  == <<"https:", "//", "b.com", "/", "docs">>

\* The seed lists a caller passes (args.urls): none, one seed, a seed
\* twice, two pages of one host, a first seed that matches an ignore
\* pattern, and seeds of two hosts.
SeedLists ==
    {<<>>, <<A_DOCS>>, <<A_DOCS, A_DOCS>>, <<A_DOCS, A_A>>, <<A_LOGIN, A_DOCS>>,
     <<B_DOCS, A_DOCS>>}

\* The <loc> lists a sitemap.xml declares: none, and lists on the seed's
\* host or on another one.
LocLists == {<<>>, <<A_A>>, <<A_A, A_LOGIN>>, <<B_DOCS, A_A>>}

\* The href attributes a page carries: a relative reference, an absolute
\* URL, one matching an ignore pattern, one urljoin cannot parse.
HrefPool == {<<"a">>, B_DOCS, <<"/", "login">>, <<"https:", "//", "[">>}

CLI == "load_documents_from_sources"
API == "load_api_reference_documents"

\* What requests.get(sitemap_url) and ET.fromstring can give: no response,
\* a non-2xx response (whatever its body), a body that is not XML, or a
\* sitemap with its <loc> entries.
SitemapResponses ==
    {[kind |-> k, locs |-> <<>>] : k \in {"network", "malformed"}}
    \cup {[kind |-> k, locs |-> l] : k \in {"http", "ok"}, l \in LocLists}

\* soup.get_text() of the page a URL serves, and what the translation
\* service makes of a text.
get_text(url) == <<"text of">> \o url
translatedText(text, target_language) == <<target_language>> \o text

(* ------------------------ fetch_sitemap_urls --------------------------- *)
\* fetch_sitemap_urls without raise_for_status: the body of an error
\* response is parsed like a sitemap.
fetch_sitemap_urls_NoStatus(resp) ==
    IF resp.kind \in {"ok", "http"} THEN resp.locs ELSE <<>>

\* The list fetch_sitemap_urls returns for a response: the <loc> entries of
\* a sitemap that was fetched and parsed; [] after RequestException (no
\* response, raise_for_status) or ParseError, and for an empty sitemap.
fetch_sitemap_urls(resp) == IF resp.kind = "ok" THEN resp.locs ELSE <<>>

(* --------------------------- translate_text ---------------------------- *)
\* translate_text whose handlers return nothing instead of the text.
translate_text_Lost(text, target_language, client, outcome) ==
    IF client = "None" /\ outcome = "init_fails"
    THEN [text |-> <<>>, client |-> "None"]
    ELSE IF outcome = "call_raises"
    THEN [text |-> <<>>, client |-> "Client"]
    ELSE [text |-> translatedText(text, target_language), client |-> "Client"]

\* outcome: "init_fails" (translate.Client() raises), "call_raises"
\* (client.translate raises) or "ok".  Gives the text returned and the
\* module-level client afterwards.
translate_text(text, target_language, client, outcome) ==
    IF client = "None" /\ outcome = "init_fails"
    THEN [text |-> text, client |-> "None"]
    ELSE IF outcome = "call_raises"
    THEN [text |-> text, client |-> "Client"]
    ELSE [text |-> translatedText(text, target_language), client |-> "Client"]

\* What a call of translate_text can meet, given the module-level client.
TranslateOutcomes(client) ==
    IF client = "None" THEN {"init_fails", "call_raises", "ok"} ELSE {"call_raises", "ok"}

(* ----------------------------- process_url ----------------------------- *)
\* process_url that answers a failed fetch with an empty Document.
process_url_DocOnFailure(url, lang, ok, client, outcome) ==
    IF ~ok THEN [docs |-> <<[text |-> <<>>, url |-> url]>>, client |-> client]
    ELSE IF lang = "" THEN [docs |-> <<[text |-> get_text(url), url |-> url]>>,
                            client |-> client]
    ELSE LET t == translate_text(get_text(url), lang, client, outcome)
         IN  [docs |-> <<[text |-> t.text, url |-> url]>>, client |-> t.client]

\* ok: requests.get and raise_for_status went through.  Gives the Document
\* (none, as an empty list, after RequestException) and the client.
process_url(url, lang, ok, client, outcome) ==
    IF ~ok THEN [docs |-> <<>>, client |-> client]
    ELSE IF lang = "" THEN [docs |-> <<[text |-> get_text(url), url |-> url]>>,
                            client |-> client]
    ELSE LET t == translate_text(get_text(url), lang, client, outcome)
         IN  [docs |-> <<[text |-> t.text, url |-> url]>>, client |-> t.client]

(* ------------------------------ Init ----------------------------------- *)
\* The requests of the model.  A request that asks for a translation is
\* not recursive here, and one that is not recursive may also name three
\* pages; load_api_reference_documents takes one URL.
Requests ==
    {[entry |-> CLI, urls |-> u, recursive |-> TRUE, translate_to |-> ""] :
        u \in SeedLists}
    \cup {[entry |-> CLI, urls |-> u, recursive |-> FALSE, translate_to |-> t] :
        u \in SeedLists \cup {<<A_DOCS, A_A, A_B>>, <<A_DOCS, B_DOCS>>},
        t \in {"", "en"}}
    \cup {[entry |-> API, urls |-> <<u>>, recursive |-> FALSE, translate_to |-> ""] :
        u \in {A_DOCS, B_DOCS, A_LOGIN}}

Init ==
    /\ \E rq \in Requests :
        /\ entry = rq.entry
        /\ args = [urls |-> rq.urls, recursive |-> rq.recursive,
                   translate_to |-> rq.translate_to]
    /\ pc = "start"
    /\ sitemap_response = "none"
    /\ sitemap_urls = <<>>
    /\ scrape_urls = <<>>
    /\ recursive = FALSE
    /\ translate_to = ""
    /\ base_domain = <<>>
    /\ visited = {}
    /\ documents = <<>>
    /\ queue = <<>>
    /\ current_url = <<>>
    /\ translate_client = "None"
    /\ returned = <<>>
    /\ site = <<>>
    /\ fetches = <<>>
    /\ dequeued = <<>>
    /\ enqueued = <<>>

(* --------------------------- crawl_and_scrape -------------------------- *)
\* Lines 135-138: the locals of a run that starts on `urls`.
StartCrawl(urls, rec, lang) ==
    /\ visited' = {}
    /\ documents' = <<>>
    /\ queue' = urls
    /\ enqueued' = urls
    /\ base_domain' = netloc(urls[1])
    /\ recursive' = rec
    /\ translate_to' = lang
    /\ scrape_urls' = urls
    /\ pc' = "loop"

\* The test of lines 144-148 with one of its three parts left out.
Skipped_NoDomain(url) == url \in visited \/ Ignored(url)
Skipped_NoIgnore(url) == url \in visited \/ netloc(url) # base_domain
Skipped_NoVisited(url) == Ignored(url) \/ netloc(url) # base_domain

\* Line 144 and line 147: the dequeued URL is dropped.
Skipped(url) == url \in visited \/ Ignored(url) \/ netloc(url) # base_domain

\* An exception leaves crawl_and_scrape: load_api_reference_documents
\* catches it and returns [], load_documents_from_sources lets it through.
Raise ==
    /\ pc' = IF entry = API THEN "caught" ELSE "crashed"
    /\ returned' = <<>>

\* The for loop of lines 160-163 over the anchors still to come: the
\* links it puts on the queue after those of `added`, in the order it
\* does, and whether urljoin raised on the way.
RECURSIVE NewLinks(_, _, _, _)
NewLinks(page, anchors, seen, added) ==
    IF anchors = <<>> THEN [added |-> added, raised |-> FALSE]
    ELSE IF JoinRaises(page, Head(anchors)) THEN [added |-> added, raised |-> TRUE]
    ELSE LET absolute_link == urljoin(page, Head(anchors))
         IN  NewLinks(page, Tail(anchors), seen,
                      IF absolute_link \notin seen
                      THEN Append(added, absolute_link) ELSE added)

\* Line 163 with the new links put at the head of the queue.
Extend_AtHead(q, links) == links \o q

\* Line 163, queue.append(absolute_link) for each new link in turn: the
\* queue the loop leaves.
Extend(q, links) == q \o links

\* The anchors a page serves: fixed once the page has been served.
Anchors(url) ==
    IF url \in DOMAIN site THEN {site[url]} ELSE SeqsUpTo(HrefPool, MaxLinks)

\* fetch_sitemap_urls(args.urls[0]), lines 38-55, as both entry points
\* call it first: the response it met and the list it returns.
FetchSitemap ==
    /\ pc = "start"
    /\ args.urls # <<>>
    /\ \E resp \in SitemapResponses :
        /\ sitemap_response' = resp.kind
        /\ sitemap_urls' = fetch_sitemap_urls(resp)
    /\ pc' = "fetched"
    /\ UNCHANGED <<entry, args, scrape_urls, recursive, translate_to, base_domain,
                   visited, documents, queue, current_url, translate_client,
                   returned, site, fetches, dequeued, enqueued>>

\* Lines 177-182: nothing to crawl without a URL; else the crawl starts on
\* the sitemap's list or on the seeds, recursive as the request says.
load_documents_from_sources ==
    /\ entry = CLI
    /\ \/ /\ pc = "start"
          /\ args.urls = <<>>
          /\ pc' = "done"
          /\ returned' = <<>>
          /\ UNCHANGED <<scrape_urls, recursive, translate_to, base_domain, visited,
                         documents, queue, enqueued>>
       \/ /\ pc = "fetched"
          /\ StartCrawl(IF sitemap_urls # <<>> THEN sitemap_urls ELSE args.urls,
                        args.recursive, args.translate_to)
          /\ UNCHANGED returned
    /\ sitemap_response' = "none"
    /\ UNCHANGED <<entry, args, sitemap_urls, current_url, translate_client, site,
                   fetches, dequeued>>

\* Lines 55-57 of create_core_knowledge_base.py: the crawl starts on the
\* sitemap's list, or on the URL and then recursive.
load_api_reference_documents ==
    /\ entry = API
    /\ pc = "fetched"
    /\ StartCrawl(IF sitemap_urls # <<>> THEN sitemap_urls ELSE <<args.urls[1]>>,
                  sitemap_urls = <<>>, "")
    /\ sitemap_response' = "none"
    /\ UNCHANGED <<entry, args, sitemap_urls, current_url, translate_client, site,
                   returned, fetches, dequeued>>

\* Lines 142-148, a URL that is dropped.
LoopSkip ==
    /\ pc = "loop"
    /\ queue # <<>>
    /\ Skipped(Head(queue))
    /\ queue' = Tail(queue)
    /\ current_url' = Head(queue)
    /\ dequeued' = Append(dequeued, Head(queue))
    /\ UNCHANGED <<entry, args, pc, sitemap_response, sitemap_urls, scrape_urls,
                   recursive, translate_to, base_domain, visited, documents,
                   translate_client, returned, site, fetches, enqueued>>

\* Lines 142-150, a URL that is kept.
LoopVisit ==
    /\ pc = "loop"
    /\ queue # <<>>
    /\ ~Skipped(Head(queue))
    /\ queue' = Tail(queue)
    /\ current_url' = Head(queue)
    /\ dequeued' = Append(dequeued, Head(queue))
    /\ visited' = visited \cup {Head(queue)}
    /\ pc' = "process"
    /\ UNCHANGED <<entry, args, sitemap_response, sitemap_urls, scrape_urls,
                   recursive, translate_to, base_domain, documents,
                   translate_client, returned, site, fetches, enqueued>>

\* Lines 151-155 with the link harvest entered only when process_url gave
\* a Document.
ProcessUrl_HarvestIfDoc ==
    /\ pc = "process"
    /\ \E ok \in BOOLEAN :
       \E outcome \in IF ok /\ translate_to # ""
                      THEN TranslateOutcomes(translate_client) ELSE {"none"} :
         LET r == process_url(current_url, translate_to, ok, translate_client, outcome)
         IN  /\ fetches' = Append(fetches, [url |-> current_url, kind |-> "content",
                                            ok |-> ok, tr |-> outcome])
             /\ documents' = documents \o r.docs
             /\ translate_client' = r.client
             /\ pc' = IF recursive /\ r.docs # <<>> THEN "harvest" ELSE "loop"
    /\ UNCHANGED <<entry, args, sitemap_response, sitemap_urls, scrape_urls,
                   recursive, translate_to, base_domain, visited, queue,
                   current_url, returned, site, dequeued, enqueued>>

\* Lines 151-153: process_url, and the Document it gave is kept.
ProcessUrl ==
    /\ pc = "process"
    /\ \E ok \in BOOLEAN :
       \E outcome \in IF ok /\ translate_to # ""
                      THEN TranslateOutcomes(translate_client) ELSE {"none"} :
         LET r == process_url(current_url, translate_to, ok, translate_client, outcome)
         IN  /\ fetches' = Append(fetches, [url |-> current_url, kind |-> "content",
                                            ok |-> ok, tr |-> outcome])
             /\ documents' = documents \o r.docs
             /\ translate_client' = r.client
    /\ pc' = IF recursive THEN "harvest" ELSE "loop"
    /\ UNCHANGED <<entry, args, sitemap_response, sitemap_urls, scrape_urls,
                   recursive, translate_to, base_domain, visited, queue,
                   current_url, returned, site, dequeued, enqueued>>

\* Lines 155-165: the second fetch of the page, for its links.
HarvestLinks ==
    /\ pc = "harvest"
    /\ \E ok \in BOOLEAN :
         /\ fetches' = Append(fetches, [url |-> current_url, kind |-> "links",
                                        ok |-> ok, tr |-> "none"])
         /\ IF ~ok
            THEN /\ pc' = "loop"
                 /\ UNCHANGED <<queue, enqueued, site, returned>>
            ELSE \E anchors \in Anchors(current_url) :
                 \E h \in {NewLinks(current_url, anchors, visited, <<>>)} :
                     /\ site' = (current_url :> anchors) @@ site
                     /\ queue' = Extend(queue, h.added)
                     /\ enqueued' = enqueued \o h.added
                     /\ IF h.raised THEN Raise ELSE pc' = "loop" /\ UNCHANGED returned
    /\ UNCHANGED <<entry, args, sitemap_response, sitemap_urls, scrape_urls,
                   recursive, translate_to, base_domain, visited, documents,
                   current_url, translate_client, dequeued>>

\* Lines 141 and 167-168: the frontier is empty.
Return ==
    /\ pc = "loop"
    /\ queue = <<>>
    /\ pc' = "done"
    /\ returned' = documents
    /\ UNCHANGED <<entry, args, sitemap_response, sitemap_urls, scrape_urls,
                   recursive, translate_to, base_domain, visited, documents,
                   queue, current_url, translate_client, site, fetches, dequeued,
                   enqueued>>

Next ==
    \/ FetchSitemap
    \/ load_documents_from_sources
    \/ load_api_reference_documents
    \/ LoopSkip
    \/ LoopVisit
    \/ ProcessUrl
    \/ HarvestLinks
    \/ Return

Spec == Init /\ [][Next]_vars

(* ======================= properties of the crawl ======================= *)
\* In scope for the run: no ignore pattern, and the host of urls[0].
InScope(url) == ~Ignored(url) /\ netloc(url) = netloc(scrape_urls[1])

OkContentFetch(f) == f.kind = "content" /\ f.ok
OkContent == SelectSeq(fetches, OkContentFetch)
\* The URLs of a list of Documents, or of fetches.
Urls(docs) == {docs[i].url : i \in 1..Len(docs)}
SitemapFailed == sitemap_response \in {"network", "http", "malformed"}
Stopped == pc \in {"done", "crashed", "caught"}

\* The absolute URLs the anchors of a served page resolve to.
LinksOf(url) ==
    IF url \in DOMAIN site
    THEN {urljoin(url, site[url][k]) :
            k \in {j \in 1..Len(site[url]) : ~JoinRaises(url, site[url][j])}}
    ELSE {}

\* The in-scope URLs reachable from the frontier through in-scope pages.
RECURSIVE Reach(_)
Reach(S) ==
    LET N == S \cup {v \in UNION {LinksOf(u) : u \in S} : InScope(v)}
    IN  IF N = S THEN S ELSE Reach(N)

ReachableInScope == Reach({u \in Range(scrape_urls) : InScope(u)})

\* C1: whenever fetch_sitemap_urls returned a non-empty list, the crawl
\* starts on exactly that list and follows no link: no link-harvest fetch is
\* issued and no URL outside the list is ever enqueued, whatever the
\* request's recursive flag, in both entry points.
C1_SitemapPrecedence ==
    (pc \notin {"start", "fetched"} /\ sitemap_urls # <<>>) =>
        /\ scrape_urls = sitemap_urls
        /\ \A i \in 1..Len(fetches) : fetches[i].kind # "links"
        /\ Range(queue) \cup Range(dequeued) \subseteq Range(sitemap_urls)

\* C2: no Document is produced for a URL whose host differs from the host
\* of the first seed URL the caller supplied, also when the frontier comes
\* from a sitemap.
C2_BaseDomainFromFirstSeed ==
    \A i \in 1..Len(documents) : netloc(documents[i].url) = netloc(args.urls[1])

\* C3: a URL whose netloc is not the netloc of urls[0] is never fetched, for
\* content or for links, and is the source of no Document, whether it was in
\* the initial frontier or linked from an in-scope page.
C3_DomainScoping ==
    \A u \in Urls(fetches) \cup Urls(documents) \cup Urls(returned) :
        netloc(u) = netloc(scrape_urls[1])

\* A run returned Documents after it dequeued a URL of another host that a
\* page linked to.
C3_Witness ==
    /\ pc = "done"
    /\ returned # <<>>
    /\ \E i \in 1..Len(dequeued) :
          /\ netloc(dequeued[i]) # netloc(scrape_urls[1])
          /\ ~Ignored(dequeued[i])
          /\ dequeued[i] \notin Range(scrape_urls)

\* C4: a URL that contains a substring of IGNORE_PATTERNS is never fetched,
\* for content or for links, never enters the visited set and yields no
\* Document, whether it came from the seeds, the sitemap or a link.
C4_IgnorePatternExclusion ==
    \A u \in Urls(fetches) \cup visited \cup Urls(documents) \cup Urls(returned) :
        ~Ignored(u)

\* A run returned Documents after it dequeued an ignored URL that a page
\* linked to.
C4_Witness ==
    /\ pc = "done"
    /\ returned # <<>>
    /\ \E i \in 1..Len(dequeued) :
          Ignored(dequeued[i]) /\ dequeued[i] \notin Range(scrape_urls)

\* C5: a URL string receives at most one content fetch and at most one
\* link-harvest fetch in a run, so no two Documents have the same source and
\* a URL whose fetch failed is not fetched again.
C5_AtMostOnceFetch ==
    /\ \A i, j \in 1..Len(fetches) :
          (i < j /\ fetches[i].kind = fetches[j].kind) => fetches[i].url # fetches[j].url
    /\ \A i, j \in 1..Len(documents) : i < j => documents[i].url # documents[j].url
    /\ \A i, j \in 1..Len(returned) : i < j => returned[i].url # returned[j].url

\* A run dequeued twice a URL whose content fetch had failed.
C5_Witness ==
    /\ pc = "done"
    /\ \E i, j \in 1..Len(dequeued) :
          /\ i < j
          /\ dequeued[i] = dequeued[j]
          /\ \E k \in 1..Len(fetches) :
                fetches[k].url = dequeued[i] /\ fetches[k].kind = "content" /\ ~fetches[k].ok

\* C6: a recursive crawl that has stopped has returned with an empty
\* frontier, and when every fetch succeeded it returned as many Documents as
\* there are in-scope URLs reachable from the seeds through in-scope pages.
C6_TerminationAndCount ==
    (recursive /\ Stopped) =>
        /\ pc = "done"
        /\ queue = <<>>
        /\ (\A i \in 1..Len(fetches) : fetches[i].ok)
              => Len(returned) = Cardinality(ReachableInScope)

\* C7 as stated: when the sitemap fetch fails or the sitemap is malformed,
\* fetch_sitemap_urls returns [], and the run that follows starts on the
\* seed list and follows links.
C7_FallbackFollowsLinks ==
    /\ (pc = "fetched" /\ SitemapFailed) => sitemap_urls = <<>>
    /\ (pc \notin {"start", "fetched"} /\ sitemap_urls = <<>> /\ args.urls # <<>>) =>
          /\ scrape_urls = args.urls
          /\ recursive

\* C7, amended: when the sitemap fetch fails or the sitemap is malformed,
\* fetch_sitemap_urls returns [], and the run that follows starts on the
\* seed list; it follows links in load_api_reference_documents, and in
\* load_documents_from_sources exactly when the request is recursive.
C7_FallbackToSeeds ==
    /\ (pc = "fetched" /\ SitemapFailed) => sitemap_urls = <<>>
    /\ (pc \notin {"start", "fetched"} /\ sitemap_urls = <<>> /\ args.urls # <<>>) =>
          /\ scrape_urls = args.urls
          /\ recursive = (entry = API \/ args.recursive)

\* After fetch_sitemap_urls returned [], a run crawled from its seed,
\* followed a link and returned the Documents of both pages.
C7_Witness ==
    /\ pc = "done"
    /\ sitemap_urls = <<>>
    /\ scrape_urls = args.urls
    /\ Len(returned) = 2
    /\ \E i \in 1..Len(dequeued) : dequeued[i] \notin Range(scrape_urls)

\* C8: a failed content fetch yields no Document and ends nothing: the
\* Documents are those of the successful content fetches, in order, the
\* crawl goes on after a failure, and what it returns holds a Document for
\* every in-scope URL it dequeued whose content fetch succeeded.
C8_FetchFailureIsolation ==
    /\ Len(documents) = Len(OkContent)
    /\ \A i \in 1..Len(documents) : documents[i].url = OkContent[i].url
    /\ (fetches # <<>> /\ fetches[Len(fetches)].kind = "content")
          => pc \in {"harvest", "loop", "process", "done"}
    /\ pc = "done" =>
          /\ returned = documents
          /\ queue = <<>>
          /\ \A i \in 1..Len(dequeued) :
                InScope(dequeued[i]) =>
                   \E k \in 1..Len(fetches) :
                      /\ fetches[k].kind = "content"
                      /\ fetches[k].url = dequeued[i]
                      /\ fetches[k].ok <=> dequeued[i] \in Urls(returned)

\* A run returned the Documents of two pages, one fetched before and one
\* after a page whose content fetch failed.
C8_Witness ==
    /\ pc = "done"
    /\ Len(returned) = 2
    /\ \E i, j, k \in 1..Len(fetches) :
          /\ i < j /\ j < k
          /\ OkContentFetch(fetches[i])
          /\ fetches[j].kind = "content" /\ ~fetches[j].ok
          /\ OkContentFetch(fetches[k])

\* C9: when the translation client cannot be initialised or the translate
\* call raises, the Document of that URL is emitted with the extracted text
\* as it was, and the crawl goes on to return every Document.
C9_TranslationNoOp ==
    /\ \A i \in 1..Len(OkContent) :
          OkContent[i].tr \in {"init_fails", "call_raises"} =>
             /\ i <= Len(documents)
             /\ documents[i] = [text |-> get_text(OkContent[i].url), url |-> OkContent[i].url]
    /\ (fetches # <<>> /\ fetches[Len(fetches)].tr \in {"init_fails", "call_raises"})
          => pc \in {"harvest", "loop", "process", "done"}
    /\ pc = "done" => returned = documents

\* A run returned two untranslated Documents: for the first the client
\* could not be initialised, for the second the translate call raised.
C9_Witness ==
    /\ pc = "done"
    /\ translate_to = "en"
    /\ Len(returned) >= 2
    /\ \E i, j \in 1..Len(OkContent) :
          /\ i < j
          /\ OkContent[i].tr = "init_fails"
          /\ OkContent[j].tr = "call_raises"
          /\ returned[j].text = get_text(returned[j].url)

\* Under weak fairness of the crawl's steps every run stops, and a recursive
\* run that returns has an empty frontier and, when every fetch succeeded, one
\* Document for each in-scope URL reachable from its frontier.
LiveSpec == Spec /\ WF_vars(Next)
CrawlStops == <>Stopped
CountWhenReturned ==
    (recursive /\ pc = "done") =>
        /\ queue = <<>>
        /\ (\A i \in 1..Len(fetches) : fetches[i].ok) => Urls(returned) = ReachableInScope

\* C10: no error raised while the links of a page are harvested leaves
\* crawl_and_scrape: the page adds no link, the Documents are kept and the
\* crawl goes on.
C10_LinkErrorsRecovered ==
    (fetches # <<>> /\ fetches[Len(fetches)].kind = "links") =>
        /\ pc \in {"loop", "process", "done"}
        /\ pc = "done" => returned = documents

\* The place where a URL first stands in a list of URLs.
FirstIndex(s, url) ==
    CHOOSE i \in 1..Len(s) : s[i] = url /\ \A j \in 1..(i - 1) : s[j] # url

\* The Documents of a list stand in the order their URLs were first put on
\* the queue.
InEnqueueOrder(docs) ==
    /\ Urls(docs) \subseteq Range(enqueued)
    /\ \A i, j \in 1..Len(docs) :
          i < j => FirstIndex(enqueued, docs[i].url) < FirstIndex(enqueued, docs[j].url)

\* C11: the frontier is first in, first out: what was put on the queue, in
\* the order it was put there (the seeds as given, then the links of each
\* page as they were harvested), is what was taken from its head followed
\* by what still waits, and the Documents collected and returned stand in
\* the order their URLs were first put on the queue.
C11_FifoOrder ==
    /\ enqueued = dequeued \o queue
    /\ pc \notin {"start", "fetched"} =>
          SubSeq(enqueued, 1, Len(scrape_urls)) = scrape_urls
    /\ InEnqueueOrder(documents)
    /\ InEnqueueOrder(returned)

\* A returned list of two Documents, the second for a link that was put on
\* the queue behind another link of the same page.
C11_Witness ==
    /\ pc = "done"
    /\ Len(returned) = 2
    /\ returned[2].url \notin Range(scrape_urls)
    /\ Len(enqueued) > Len(scrape_urls) + 1
    /\ FirstIndex(enqueued, returned[2].url) > Len(scrape_urls) + 1

\* The fetches of one kind issued for a URL, and whether one of them had
\* the given outcome.
FetchesOf(url, kind) ==
    {i \in 1..Len(fetches) : fetches[i].url = url /\ fetches[i].kind = kind}
Fetched(url, kind, ok) ==
    \E i \in FetchesOf(url, kind) : fetches[i].ok = ok

\* C12: once the loop is through with a URL it visited, exactly one content
\* fetch and, in recursive mode, exactly one link-harvest fetch have been
\* issued for it (none in non-recursive mode), whatever the content fetch
\* gave, and for no other URL; a URL whose content fetch failed has no
\* Document, and the links of a page whose link-harvest fetch succeeded
\* were put on the queue, with or without a Document for the page.
C12_TwoFetchesPerVisit ==
    pc \in {"loop", "done", "crashed", "caught"} =>
        /\ \A url \in visited :
              /\ Cardinality(FetchesOf(url, "content")) = 1
              /\ Cardinality(FetchesOf(url, "links")) = IF recursive THEN 1 ELSE 0
              /\ Fetched(url, "content", FALSE) => url \notin Urls(documents)
              /\ (Fetched(url, "links", TRUE) /\ pc \in {"loop", "done"}) =>
                    LinksOf(url) \subseteq Range(enqueued)
        /\ Urls(fetches) \subseteq visited
        /\ Len(fetches) = Cardinality(visited) * (IF recursive THEN 2 ELSE 1)

\* A finished recursive run with a page that gave no Document and yet a
\* link that was crawled, and a page that gave a Document and no link.
C12_Witness ==
    /\ pc = "done"
    /\ recursive
    /\ \E u, v \in visited :
          /\ Fetched(u, "content", FALSE)
          /\ Fetched(u, "links", TRUE)
          /\ u \notin Urls(returned)
          /\ v \in LinksOf(u) \ Range(scrape_urls)
          /\ v \in Urls(returned)
          /\ Fetched(v, "content", TRUE)
          /\ Fetched(v, "links", FALSE)
====
